---- MODULE Spec2Model ----
(***************************************************************************)
(* Model of the motion-recording session of the hand assessment platform:  *)
(*   - the Recording page (client/src/pages/quickdash-questionnaire.tsx):  *)
(*     hand-type lock, countdown and recording timers, per-frame callback  *)
(*     handleMediaPipeUpdate, running maxima, explicit stop, finalization  *)
(*     and submission of the repetition data;                              *)
(*   - the completion handler of the server (server/routes.ts, POST        *)
(*     /api/users/:userId/assessments/:assessmentId/complete): folding of  *)
(*     the repetitions into stored maxima and the temporal quality gate.   *)
(* Time is counted in whole seconds; a frame is observed at a whole-second *)
(* instant. Angles are small integers.                                     *)
(* Event handlers run against the latest committed render; the timer       *)
(* effect and the 100 ms completion callbacks keep the render they were    *)
(* created in. The page stays mounted after a submission: only the         *)
(* response to it, which is not represented, navigates away.               *)
(***************************************************************************)
EXTENDS Integers, Sequences, FiniteSets, TLC

VARIABLES
    \* ---- Recording page (React state and refs) ----
    isRecording, isCountingDown, countdownTimer, recordingTimer,
    handDetected, detectedHandType, sessionHandType,
    recordedData,            \* repetitions finalized so far
    recordingMotionDataRef,  \* frames captured by the current recording
    recordingElapsed,        \* Date.now() - recordingStartTimeRef.current in
                             \* seconds, Null while the ref holds null
    maxROM, sessionMaxWristAngles, sessionMaxDeviation,
    effectClosure,           \* render captured by the timer effect
    pending,                 \* scheduled 100 ms completion callbacks
    submitted,               \* bodies handed to completeAssessmentMutation
    handTypeDefaulted,       \* startRecording took the 'LEFT' default branch
    \* ---- completion handler (server) ----
    srvPc, srvReq, srvName, srvIdx, srvAcc, srvCalc, srvStored,
    \* ---- one calculation applied to given inputs ----
    calcPc, calcIn, calcOut

clientVars == <<isRecording, isCountingDown, countdownTimer,
                recordingTimer, handDetected, detectedHandType, sessionHandType,
                recordedData, recordingMotionDataRef, recordingElapsed,
                maxROM, sessionMaxWristAngles, sessionMaxDeviation,
                effectClosure, pending, submitted, handTypeDefaulted>>

serverVars == <<srvPc, srvReq, srvName, srvIdx, srvAcc, srvCalc, srvStored>>

calcVars == <<calcPc, calcIn, calcOut>>

vars == <<clientVars, serverVars, calcVars>>

----------------------------------------------------------------------------
\* Bounds of the model
MaxFrames == 2          \* frames captured by one recording
MaxRecordings == 2      \* presses of the RECORD button
MaxReps == 2            \* repetitions in one completion request

\* Program constants
COUNTDOWN_SECONDS == 3
RECORDING_SECONDS == 15
CAPTURE_WINDOW == 10
HAND_LANDMARKS == 21
MIN_VISIBILITY == 7       \* 0.7, in tenths

Null == -1              \* null (all measured values are >= 0)
Undefined == -2         \* undefined

HandTypes == {"UNKNOWN", "LEFT", "RIGHT"}

Max(a, b) == IF a >= b THEN a ELSE b

\* JavaScript `x || 0` on a nullable number
OrZero(x) == IF x = Null \/ x = Undefined THEN 0 ELSE x

\* JavaScript `x || null` on a nullable number: zero is falsy
OrNull(x) == IF x = Null \/ x = Undefined \/ x = 0 THEN Null ELSE x

ZeroROM == [mcpAngle |-> 0, pipAngle |-> 0, dipAngle |-> 0, totalActiveRom |-> 0]

NoWristAngles == [present |-> FALSE, wristFlexionAngle |-> Null, wristExtensionAngle |-> Null]

NoWristDeviation == [present |-> FALSE, radialDeviation |-> Null, ulnarDeviation |-> Null]

\* The data objects the tracker hands to onUpdate. landmarks is the number of
\* hand landmarks; rom is what calculateCurrentROM yields on them and
\* kapandji the opposition rung the thumb tip reaches in them; the three
\* handedness fields are the tracker's own estimates; visibility is the lowest
\* per-point confidence among the landmarks, in tenths.
TrackerFrames ==
    { \* no hand in view
      [visibility |-> 0, handDetected |-> FALSE, landmarks |-> 0,
       detectedHandSide |-> "UNKNOWN", handType |-> "UNKNOWN", lockedHandType |-> "UNKNOWN",
       rom |-> ZeroROM, kapandji |-> 0,
       wristAngles |-> NoWristAngles, wristDeviation |-> NoWristDeviation],
      \* full left hand, flexed wrist, radial deviation
      [visibility |-> 9, handDetected |-> TRUE, landmarks |-> HAND_LANDMARKS,
       detectedHandSide |-> "LEFT", handType |-> "UNKNOWN", lockedHandType |-> "UNKNOWN",
       rom |-> [mcpAngle |-> 2, pipAngle |-> 1, dipAngle |-> 1, totalActiveRom |-> 4],
       kapandji |-> 1,
       wristAngles |-> [present |-> TRUE, wristFlexionAngle |-> 3, wristExtensionAngle |-> 0],
       wristDeviation |-> [present |-> TRUE, radialDeviation |-> 2, ulnarDeviation |-> 0]],
      \* full right hand, extended wrist, ulnar deviation
      [visibility |-> 5, handDetected |-> TRUE, landmarks |-> HAND_LANDMARKS,
       detectedHandSide |-> "RIGHT", handType |-> "UNKNOWN", lockedHandType |-> "UNKNOWN",
       rom |-> [mcpAngle |-> 1, pipAngle |-> 2, dipAngle |-> 1, totalActiveRom |-> 4],
       kapandji |-> 3,
       wristAngles |-> [present |-> TRUE, wristFlexionAngle |-> 0, wristExtensionAngle |-> 2],
       wristDeviation |-> [present |-> TRUE, radialDeviation |-> 0, ulnarDeviation |-> 3]],
      \* hand in view, partly outside the image: fewer than 21 landmarks,
      \* no handedness estimate
      [visibility |-> 9, handDetected |-> TRUE, landmarks |-> HAND_LANDMARKS - 11,
       detectedHandSide |-> "UNKNOWN", handType |-> "UNKNOWN", lockedHandType |-> "UNKNOWN",
       rom |-> ZeroROM, kapandji |-> 0,
       wristAngles |-> NoWristAngles, wristDeviation |-> NoWristDeviation] }

\* a faulty updater that keeps the latest angles instead of the maxima
LatestJointAngles(prev, rom) == rom

\* Math.max over the four joint angles (setMaxROM updater)
MaxJointAngles(prev, rom) ==
    [mcpAngle       |-> Max(prev.mcpAngle, rom.mcpAngle),
     pipAngle       |-> Max(prev.pipAngle, rom.pipAngle),
     dipAngle       |-> Max(prev.dipAngle, rom.dipAngle),
     totalActiveRom |-> Max(prev.totalActiveRom, rom.totalActiveRom)]

\* setSessionMaxWristAngles updater
MaxWristAngles(prev, w) ==
    [maxWristFlexion   |-> Max(prev.maxWristFlexion, OrZero(w.wristFlexionAngle)),
     maxWristExtension |-> Max(prev.maxWristExtension, OrZero(w.wristExtensionAngle))]

\* the two guarded setSessionMaxDeviation updates
MaxDeviation(prev, d) ==
    [maxRadialDeviation |-> IF d.radialDeviation > prev.maxRadialDeviation
                            THEN d.radialDeviation ELSE prev.maxRadialDeviation,
     maxUlnarDeviation  |-> IF d.ulnarDeviation > prev.maxUlnarDeviation
                            THEN d.ulnarDeviation ELSE prev.maxUlnarDeviation]

\* the two setDetectedHandType calls: the calculated hand type wins
NextDetectedHandType(cur, d) ==
    IF d.handType # "UNKNOWN" THEN d.handType
    ELSE IF d.detectedHandSide # "UNKNOWN" THEN d.detectedHandSide
    ELSE cur

\* "Only update detected hand type if no session lock exists"
NextSessionHandType(cur, d) ==
    IF cur = "UNKNOWN"
    THEN IF d.lockedHandType # "UNKNOWN" THEN d.lockedHandType
         ELSE IF d.detectedHandSide # "UNKNOWN" THEN d.detectedHandSide
         ELSE cur
    ELSE cur

\* the condition under which a frame is appended to the motion data
CaptureCondition(elapsed, d) ==
    /\ elapsed # Null
    /\ elapsed > 0
    /\ elapsed <= CAPTURE_WINDOW
    /\ d.handDetected
    /\ d.landmarks > 0

InCaptureWindow(d) == CaptureCondition(recordingElapsed, d)

\* the motionFrame object (landmarks as their count and the ROM they give;
\* the timestamp, the pose landmarks and the tracker's elbow indices are
\* not represented)
MotionFrame(d, lock) ==
    [landmarks   |-> d.landmarks,
     rom         |-> d.rom,
     kapandji    |-> d.kapandji,
     wristAngles |-> d.wristAngles,
     handedness  |-> IF lock # "UNKNOWN" THEN lock ELSE d.lockedHandType]

\* frames held by the page: the current buffer and the finalized repetitions
RECURSIVE FramesIn(_)
FramesIn(reps) ==
    IF reps = <<>> THEN 0
    ELSE Len(Head(reps).motionData) + FramesIn(Tail(reps))

\* the render a handler closes over
Render ==
    [recordedData |-> recordedData, maxROM |-> maxROM,
     sessionHandType |-> sessionHandType, detectedHandType |-> detectedHandType]

\* the timer effect while neither interval is set: its closure is never called
NoInterval ==
    [recordedData |-> <<>>, maxROM |-> ZeroROM,
     sessionHandType |-> "UNKNOWN", detectedHandType |-> "UNKNOWN"]

ClientInit ==
    /\ isRecording = FALSE
    /\ isCountingDown = FALSE
    /\ countdownTimer = 0
    /\ recordingTimer = 0
    /\ handDetected = FALSE
    /\ detectedHandType = "UNKNOWN"
    /\ sessionHandType = "UNKNOWN"
    /\ recordedData = <<>>
    /\ recordingMotionDataRef = <<>>
    /\ recordingElapsed = Null
    /\ maxROM = ZeroROM
    /\ sessionMaxWristAngles = [maxWristFlexion |-> 0, maxWristExtension |-> 0]
    /\ sessionMaxDeviation = [maxRadialDeviation |-> 0, maxUlnarDeviation |-> 0]
    /\ effectClosure = NoInterval
    /\ pending = <<>>
    /\ submitted = <<>>
    /\ handTypeDefaulted = FALSE

\* handleMediaPipeUpdate(data)
handleMediaPipeUpdate(d) ==
    /\ InCaptureWindow(d) =>
          Len(recordingMotionDataRef) + FramesIn(recordedData) < MaxFrames
    /\ handDetected' = d.handDetected
    /\ detectedHandType' = NextDetectedHandType(detectedHandType, d)
    /\ sessionMaxDeviation' =
          IF d.wristDeviation.present
          THEN MaxDeviation(sessionMaxDeviation, d.wristDeviation)
          ELSE sessionMaxDeviation
    /\ sessionHandType' = NextSessionHandType(sessionHandType, d)
    /\ sessionMaxWristAngles' =
          IF d.landmarks > 0 /\ d.wristAngles.present
          THEN MaxWristAngles(sessionMaxWristAngles, d.wristAngles)
          ELSE sessionMaxWristAngles
    /\ maxROM' =
          IF d.landmarks >= HAND_LANDMARKS /\ isRecording
          THEN MaxJointAngles(maxROM, d.rom)
          ELSE maxROM
    /\ recordingMotionDataRef' =
          IF InCaptureWindow(d)
          THEN Append(recordingMotionDataRef, MotionFrame(d, sessionHandType))
          ELSE recordingMotionDataRef
    /\ UNCHANGED <<isRecording, isCountingDown, countdownTimer,
                   recordingTimer, recordedData, recordingElapsed, effectClosure,
                   pending, submitted, handTypeDefaulted>>
    /\ UNCHANGED <<serverVars, calcVars>>

\* startRecording: the RECORD button (shown while neither recording nor
\* counting down, disabled while no hand is detected)
startRecording ==
    /\ ~isRecording /\ ~isCountingDown
    /\ handDetected
    /\ Len(submitted) + Len(pending) < MaxRecordings
    /\ sessionHandType' = IF detectedHandType # "UNKNOWN" THEN detectedHandType ELSE "LEFT"
    /\ handTypeDefaulted' = (detectedHandType = "UNKNOWN")
    /\ isCountingDown' = TRUE
    /\ countdownTimer' = COUNTDOWN_SECONDS
    /\ UNCHANGED <<isRecording, recordingTimer, handDetected,
                   detectedHandType, recordedData, recordingMotionDataRef,
                   recordingElapsed, maxROM, sessionMaxWristAngles,
                   sessionMaxDeviation, effectClosure, pending, submitted>>
    /\ UNCHANGED <<serverVars, calcVars>>

\* a faulty countdown that starts over instead of starting the recording
CountdownTickStartingOver ==
    /\ isCountingDown
    /\ pending = <<>>
    /\ countdownTimer' = IF countdownTimer <= 1 THEN COUNTDOWN_SECONDS
                         ELSE countdownTimer - 1
    /\ UNCHANGED <<isCountingDown, isRecording, recordingTimer, recordingElapsed,
                   recordingMotionDataRef, maxROM, effectClosure>>
    /\ UNCHANGED <<handDetected, detectedHandType, sessionHandType,
                   recordedData, sessionMaxWristAngles, sessionMaxDeviation,
                   pending, submitted, handTypeDefaulted>>
    /\ UNCHANGED <<serverVars, calcVars>>

\* one firing of the countdown interval (timer effect, isCountingDown branch).
\* A 100 ms completion callback still scheduled is due before the next
\* 1000 ms interval firing.
CountdownTick ==
    /\ isCountingDown
    /\ pending = <<>>
    /\ IF countdownTimer <= 1
       THEN /\ isCountingDown' = FALSE
            /\ isRecording' = TRUE
            /\ recordingTimer' = RECORDING_SECONDS
            /\ recordingElapsed' = 0
            /\ recordingMotionDataRef' = <<>>
            /\ maxROM' = ZeroROM
            /\ countdownTimer' = 0
            /\ effectClosure' = [Render EXCEPT !.maxROM = ZeroROM]
       ELSE /\ countdownTimer' = countdownTimer - 1
            /\ UNCHANGED <<isCountingDown, isRecording, recordingTimer,
                           recordingElapsed, recordingMotionDataRef, maxROM,
                           effectClosure>>
    /\ UNCHANGED <<handDetected, detectedHandType, sessionHandType,
                   recordedData, sessionMaxWristAngles, sessionMaxDeviation,
                   pending, submitted, handTypeDefaulted>>
    /\ UNCHANGED <<serverVars, calcVars>>

\* one firing of the recording interval (timer effect, isRecording branch)
RecordingTick ==
    /\ isRecording /\ ~isCountingDown
    /\ recordingElapsed' = recordingElapsed + 1
    /\ IF recordingTimer <= 0
       THEN /\ isRecording' = FALSE
            /\ pending' = Append(pending, effectClosure)
            /\ recordingTimer' = RECORDING_SECONDS
            /\ effectClosure' = NoInterval
       ELSE /\ recordingTimer' = recordingTimer - 1
            /\ UNCHANGED <<isRecording, pending, effectClosure>>
    /\ UNCHANGED <<isCountingDown, countdownTimer, handDetected,
                   detectedHandType, sessionHandType, recordedData,
                   recordingMotionDataRef, maxROM, sessionMaxWristAngles,
                   sessionMaxDeviation, submitted, handTypeDefaulted>>
    /\ UNCHANGED <<serverVars, calcVars>>

\* a faulty STOP that schedules the completion but leaves the recording on
stopRecordingStillRecording ==
    /\ isRecording /\ ~isCountingDown
    /\ Len(pending) < MaxRecordings
    /\ pending' = Append(pending, Render)
    /\ UNCHANGED <<isRecording, effectClosure>>
    /\ UNCHANGED <<isCountingDown, countdownTimer, recordingTimer,
                   handDetected, detectedHandType, sessionHandType, recordedData,
                   recordingMotionDataRef, recordingElapsed, maxROM,
                   sessionMaxWristAngles, sessionMaxDeviation,
                   submitted, handTypeDefaulted>>
    /\ UNCHANGED <<serverVars, calcVars>>

\* stopRecording: the STOP button (shown while recording)
stopRecording ==
    /\ isRecording /\ ~isCountingDown
    /\ isRecording' = FALSE
    /\ pending' = Append(pending, Render)
    /\ effectClosure' = NoInterval
    /\ UNCHANGED <<isCountingDown, countdownTimer, recordingTimer,
                   handDetected, detectedHandType, sessionHandType, recordedData,
                   recordingMotionDataRef, recordingElapsed, maxROM,
                   sessionMaxWristAngles, sessionMaxDeviation,
                   submitted, handTypeDefaulted>>
    /\ UNCHANGED <<serverVars, calcVars>>

\* calculateMaxROM (client/src/lib/rom-calculator): per-joint maximum over the
\* frames that carry a full hand
RECURSIVE calculateMaxROM(_)
calculateMaxROM(frames) ==
    IF frames = <<>> THEN ZeroROM
    ELSE LET rest == calculateMaxROM(Tail(frames))
             f == Head(frames)
         IN IF f.landmarks >= HAND_LANDMARKS THEN MaxJointAngles(rest, f.rom) ELSE rest

\* calculateMaxElbowWristAngles (shared/elbow-wrist-calculator): maximum
\* flexion and extension over the frames that carry wrist angles
RECURSIVE calculateMaxElbowWristAngles(_)
calculateMaxElbowWristAngles(frames) ==
    IF frames = <<>> THEN [maxWristFlexion |-> 0, maxWristExtension |-> 0]
    ELSE LET rest == calculateMaxElbowWristAngles(Tail(frames))
             f == Head(frames)
         IN IF f.wristAngles.present THEN MaxWristAngles(rest, f.wristAngles) ELSE rest

\* a faulty repetition that loses the frame captured last
RepetitionDataLosingLastFrame(c, frames) ==
    LET kept == IF frames = <<>> THEN <<>> ELSE SubSeq(frames, 1, Len(frames) - 1)
        latest == IF Len(frames) > 0 THEN frames[Len(frames)].wristAngles
                  ELSE NoWristAngles
    IN [motionData          |-> kept,
        romData             |-> IF Len(frames) > 0 THEN calculateMaxROM(frames) ELSE c.maxROM,
        wristFlexionAngle   |-> OrZero(latest.wristFlexionAngle),
        wristExtensionAngle |-> OrZero(latest.wristExtensionAngle),
        maxWristFlexion     |-> calculateMaxElbowWristAngles(frames).maxWristFlexion,
        maxWristExtension   |-> calculateMaxElbowWristAngles(frames).maxWristExtension]

\* the repetitionData object built by handleRepetitionComplete from the
\* render c it closes over and the live frame buffer (duration, timestamp,
\* landmarksDetected and qualityScore are not represented)
RepetitionData(c, frames) ==
    LET finalMaxROM == IF Len(frames) > 0 THEN calculateMaxROM(frames) ELSE c.maxROM
        sessionMax == calculateMaxElbowWristAngles(frames)
        latest == IF Len(frames) > 0 THEN frames[Len(frames)].wristAngles
                  ELSE NoWristAngles
    IN [motionData          |-> frames,
        romData             |-> finalMaxROM,
        wristFlexionAngle   |-> OrZero(latest.wristFlexionAngle),
        wristExtensionAngle |-> OrZero(latest.wristExtensionAngle),
        maxWristFlexion     |-> sessionMax.maxWristFlexion,
        maxWristExtension   |-> sessionMax.maxWristExtension]

\* the body completeAssessment hands to the mutation
CompletionBody(c, reps) ==
    [repetitionData |-> reps,
     handType |-> IF c.sessionHandType # "UNKNOWN" THEN c.sessionHandType
                  ELSE c.detectedHandType]

\* the 100 ms callback scheduled by stopRecording or by the recording
\* timer: clears the start time, then handleRepetitionComplete and
\* completeAssessment
handleRepetitionComplete ==
    /\ pending # <<>>
    /\ LET c == Head(pending)
           newRecordedData == Append(c.recordedData,
                                     RepetitionData(c, recordingMotionDataRef))
       IN /\ recordedData' = newRecordedData
          /\ submitted' = Append(submitted, CompletionBody(c, newRecordedData))
    /\ pending' = Tail(pending)
    /\ recordingElapsed' = Null
    /\ UNCHANGED <<isRecording, isCountingDown, countdownTimer,
                   recordingTimer, handDetected, detectedHandType, sessionHandType,
                   recordingMotionDataRef, maxROM, sessionMaxWristAngles,
                   sessionMaxDeviation, effectClosure, handTypeDefaulted>>
    /\ UNCHANGED <<serverVars, calcVars>>

\* retakeRecording: the Retake button (disabled while recording or counting down)
retakeRecording ==
    /\ ~isRecording /\ ~isCountingDown
    /\ recordedData # <<>> \/ recordingTimer # 0
    /\ recordedData' = <<>>
    /\ recordingTimer' = 0
    /\ isRecording' = FALSE
    /\ UNCHANGED <<isCountingDown, countdownTimer, handDetected,
                   detectedHandType, sessionHandType, recordingMotionDataRef,
                   recordingElapsed, maxROM, sessionMaxWristAngles,
                   sessionMaxDeviation, effectClosure, pending, submitted,
                   handTypeDefaulted>>
    /\ UNCHANGED <<serverVars, calcVars>>

----------------------------------------------------------------------------
\* POST /api/users/:userId/assessments/:assessmentId/complete

Fingers == {"index", "middle", "ring", "pinky"}

AssessmentNames == {"Kapandji Score", "TAM (Total Active Motion)"}

\* frames as the Recording page records them
RecordedFrames ==
    { MotionFrame(d, h) : d \in {t \in TrackerFrames : t.handDetected /\ t.landmarks > 0},
                          h \in {"LEFT"} }

FrameSeqs == UNION { [1..n -> RecordedFrames] : n \in 0..MaxFrames }

\* the renders handleRepetitionComplete may close over (only maxROM and the
\* hand types are read by the request it builds)
ClosedRenders ==
    { [recordedData |-> <<>>, maxROM |-> m, sessionHandType |-> "LEFT",
       detectedHandType |-> "LEFT"] :
        m \in {ZeroROM, [mcpAngle |-> 2, pipAngle |-> 1, dipAngle |-> 1, totalActiveRom |-> 4]} }

RECURSIVE RepetitionsOf(_)
RepetitionsOf(k) ==
    IF k = 0 THEN {<<>>}
    ELSE { Append(r, RepetitionData(c, fs)) :
              r \in { q \in RepetitionsOf(k - 1) : FramesIn(q) <= MaxFrames },
              c \in ClosedRenders,
              fs \in FrameSeqs }

\* request bodies: what completeAssessment sends, or a body without
\* repetition data; the top-level wrist fields are optional
CompletionRequests ==
    { [hasRepetitionData |-> TRUE, repetitionData |-> reps, handType |-> "LEFT",
       wristFlexionAngle |-> w, wristExtensionAngle |-> w,
       maxWristFlexion |-> w, maxWristExtension |-> w] :
          reps \in { r \in UNION { RepetitionsOf(k) : k \in 1..MaxReps } :
                        FramesIn(r) <= MaxFrames },
          w \in {Undefined, 0, 3} }
    \cup
    { [hasRepetitionData |-> FALSE, repetitionData |-> <<>>, handType |-> "LEFT",
       wristFlexionAngle |-> w, wristExtensionAngle |-> w,
       maxWristFlexion |-> w, maxWristExtension |-> w] : w \in {Undefined, 0, 3} }

\* what calculateAllFingersMaxROM (shared/rom-calculator) may return for one
\* finger: its maxima and its temporal quality in tenths
FingerResults ==
    { [rom |-> r, quality |-> q] :
        r \in {ZeroROM, [mcpAngle |-> 2, pipAngle |-> 1, dipAngle |-> 1, totalActiveRom |-> 4]},
        q \in {Undefined, 5, 7, 10} }

TrustedFinger ==
    [rom |-> [mcpAngle |-> 2, pipAngle |-> 1, dipAngle |-> 1, totalActiveRom |-> 4],
     quality |-> 10]

\* results in which at most two fingers differ from a fully trusted finger
AllFingersResults ==
    { [f \in Fingers |-> IF f = f1 THEN r1 ELSE IF f = f2 THEN r2 ELSE TrustedFinger] :
        f1 \in Fingers, f2 \in Fingers, r1 \in FingerResults,
        r2 \in {TrustedFinger, [rom |-> ZeroROM, quality |-> 5]} }

\* the locals of the handler before the repetitions are read
InitialLocals(req) ==
    [maxMcpAngle |-> Null, maxPipAngle |-> Null, maxDipAngle |-> Null,
     totalActiveRom |-> Null, kapandjiScore |-> Null,
     indexFingerRom |-> Null, middleFingerRom |-> Null,
     ringFingerRom |-> Null, pinkyFingerRom |-> Null,
     middleFingerMcp |-> Null, middleFingerPip |-> Null, middleFingerDip |-> Null,
     ringFingerMcp |-> Null, ringFingerPip |-> Null, ringFingerDip |-> Null,
     pinkyFingerMcp |-> Null, pinkyFingerPip |-> Null, pinkyFingerDip |-> Null,
     wristFlexionAngle   |-> OrNull(req.wristFlexionAngle),
     wristExtensionAngle |-> OrNull(req.wristExtensionAngle),
     maxWristFlexion     |-> OrNull(req.maxWristFlexion),
     maxWristExtension   |-> OrNull(req.maxWristExtension),
     allMotionFrames |-> <<>>,
     kapandjiFolded |-> 0, kapandjiMax |-> 0,
     error |-> Undefined]

\* rep.motionData.forEach: wrist angles of the frames folded into the locals
RECURSIVE FoldFrameWrist(_, _)
FoldFrameWrist(acc, frames) ==
    IF frames = <<>> THEN acc
    ELSE LET w == Head(frames).wristAngles
             flex == IF w.present /\ w.wristFlexionAngle # Undefined
                                  /\ w.wristFlexionAngle # Null
                     THEN Max(OrZero(acc.wristFlexionAngle), w.wristFlexionAngle)
                     ELSE acc.wristFlexionAngle
             ext  == IF w.present /\ w.wristExtensionAngle # Undefined
                                  /\ w.wristExtensionAngle # Null
                     THEN Max(OrZero(acc.wristExtensionAngle), w.wristExtensionAngle)
                     ELSE acc.wristExtensionAngle
         IN FoldFrameWrist([acc EXCEPT !.wristFlexionAngle = flex,
                                       !.wristExtensionAngle = ext],
                           Tail(frames))

\* a faulty fold that adds the joint angles of the repetitions up
FoldRepetitionSumming(acc, rep) ==
    LET a1 == [acc EXCEPT
                 !.maxMcpAngle = OrZero(acc.maxMcpAngle) + OrZero(rep.romData.mcpAngle),
                 !.maxPipAngle = OrZero(acc.maxPipAngle) + OrZero(rep.romData.pipAngle),
                 !.maxDipAngle = OrZero(acc.maxDipAngle) + OrZero(rep.romData.dipAngle),
                 !.totalActiveRom = OrZero(acc.totalActiveRom)
                                        + OrZero(rep.romData.totalActiveRom),
                 !.allMotionFrames = acc.allMotionFrames \o rep.motionData]
    IN FoldFrameWrist(a1, rep.motionData)

\* the body of repetitionData.forEach for one repetition
FoldRepetitionInto(acc, rep) ==
    LET a1 == [acc EXCEPT
                 !.maxMcpAngle = Max(OrZero(acc.maxMcpAngle), OrZero(rep.romData.mcpAngle)),
                 !.maxPipAngle = Max(OrZero(acc.maxPipAngle), OrZero(rep.romData.pipAngle)),
                 !.maxDipAngle = Max(OrZero(acc.maxDipAngle), OrZero(rep.romData.dipAngle)),
                 !.totalActiveRom = Max(OrZero(acc.totalActiveRom),
                                        OrZero(rep.romData.totalActiveRom))]
        a2 == [a1 EXCEPT
                 !.wristFlexionAngle =
                     IF rep.wristFlexionAngle # Undefined
                     THEN Max(OrZero(a1.wristFlexionAngle), rep.wristFlexionAngle)
                     ELSE a1.wristFlexionAngle,
                 !.wristExtensionAngle =
                     IF rep.wristExtensionAngle # Undefined
                     THEN Max(OrZero(a1.wristExtensionAngle), rep.wristExtensionAngle)
                     ELSE a1.wristExtensionAngle,
                 !.maxWristFlexion =
                     IF rep.maxWristFlexion # Undefined
                     THEN Max(OrZero(a1.maxWristFlexion), rep.maxWristFlexion)
                     ELSE a1.maxWristFlexion,
                 !.maxWristExtension =
                     IF rep.maxWristExtension # Undefined
                     THEN Max(OrZero(a1.maxWristExtension), rep.maxWristExtension)
                     ELSE a1.maxWristExtension]
        a3 == [a2 EXCEPT !.allMotionFrames = a2.allMotionFrames \o rep.motionData]
    IN FoldFrameWrist(a3, rep.motionData)

\* "Update max wrist values based on extracted data"
FinalWristMax(acc) ==
    [acc EXCEPT
       !.maxWristFlexion =
           IF acc.wristFlexionAngle # Null
           THEN Max(OrZero(acc.maxWristFlexion), acc.wristFlexionAngle)
           ELSE acc.maxWristFlexion,
       !.maxWristExtension =
           IF acc.wristExtensionAngle # Null
           THEN Max(OrZero(acc.maxWristExtension), acc.wristExtensionAngle)
           ELSE acc.maxWristExtension]

TEMPORAL_QUALITY_THRESHOLD == 7     \* 0.7, in tenths

\* temporalQuality.finger >= TEMPORAL_QUALITY_THRESHOLD (undefined >= 0.7 is false)
QualityAccepted(q) == q # Undefined /\ q >= TEMPORAL_QUALITY_THRESHOLD

\* (quality >= threshold) ? value || null : null
Gated(q, value) == IF QualityAccepted(q) THEN OrNull(value) ELSE Null

\* the assignments of the standard ROM branch
GateAllFingers(acc, res) ==
    [acc EXCEPT
       !.indexFingerRom  = Gated(res["index"].quality,  res["index"].rom.totalActiveRom),
       !.middleFingerRom = Gated(res["middle"].quality, res["middle"].rom.totalActiveRom),
       !.ringFingerRom   = Gated(res["ring"].quality,   res["ring"].rom.totalActiveRom),
       !.pinkyFingerRom  = Gated(res["pinky"].quality,  res["pinky"].rom.totalActiveRom),
       !.middleFingerMcp = Gated(res["middle"].quality, res["middle"].rom.mcpAngle),
       !.middleFingerPip = Gated(res["middle"].quality, res["middle"].rom.pipAngle),
       !.middleFingerDip = Gated(res["middle"].quality, res["middle"].rom.dipAngle),
       !.ringFingerMcp   = Gated(res["ring"].quality,   res["ring"].rom.mcpAngle),
       !.ringFingerPip   = Gated(res["ring"].quality,   res["ring"].rom.pipAngle),
       !.ringFingerDip   = Gated(res["ring"].quality,   res["ring"].rom.dipAngle),
       !.pinkyFingerMcp  = Gated(res["pinky"].quality,  res["pinky"].rom.mcpAngle),
       !.pinkyFingerPip  = Gated(res["pinky"].quality,  res["pinky"].rom.pipAngle),
       !.pinkyFingerDip  = Gated(res["pinky"].quality,  res["pinky"].rom.dipAngle)]

\* String(x), or null
Stored(x) == IF x = Null THEN "null" ELSE ToString(x)

\* the record handed to storage.createUserAssessment (userId, assessmentId,
\* completedAt, romData, qualityScore, the deviation and DASH fields are not
\* represented)
UserAssessment(req, acc, sessionNumber) ==
    [sessionNumber |-> sessionNumber, isCompleted |-> TRUE,
     repetitionData |-> req.repetitionData,
     handType |-> req.handType,
     maxMcpAngle |-> Stored(acc.maxMcpAngle), maxPipAngle |-> Stored(acc.maxPipAngle),
     maxDipAngle |-> Stored(acc.maxDipAngle), totalActiveRom |-> Stored(acc.totalActiveRom),
     kapandjiScore |-> Stored(acc.kapandjiScore),
     indexFingerRom |-> Stored(acc.indexFingerRom),
     middleFingerRom |-> Stored(acc.middleFingerRom),
     ringFingerRom |-> Stored(acc.ringFingerRom),
     pinkyFingerRom |-> Stored(acc.pinkyFingerRom),
     middleFingerMcp |-> Stored(acc.middleFingerMcp),
     middleFingerPip |-> Stored(acc.middleFingerPip),
     middleFingerDip |-> Stored(acc.middleFingerDip),
     ringFingerMcp |-> Stored(acc.ringFingerMcp),
     ringFingerPip |-> Stored(acc.ringFingerPip),
     ringFingerDip |-> Stored(acc.ringFingerDip),
     pinkyFingerMcp |-> Stored(acc.pinkyFingerMcp),
     pinkyFingerPip |-> Stored(acc.pinkyFingerPip),
     pinkyFingerDip |-> Stored(acc.pinkyFingerDip),
     wristFlexionAngle |-> Stored(acc.wristFlexionAngle),
     wristExtensionAngle |-> Stored(acc.wristExtensionAngle),
     maxWristFlexion |-> Stored(acc.maxWristFlexion),
     maxWristExtension |-> Stored(acc.maxWristExtension)]

\* no finger result yet (allFingersROM is not assigned)
NoResult == [f \in Fingers |-> [rom |-> ZeroROM, quality |-> Undefined]]

ServerIdle ==
    /\ srvPc = "idle"
    /\ srvReq = [hasRepetitionData |-> FALSE, repetitionData |-> <<>>,
                 handType |-> "UNKNOWN",
                 wristFlexionAngle |-> Undefined, wristExtensionAngle |-> Undefined,
                 maxWristFlexion |-> Undefined, maxWristExtension |-> Undefined]
    /\ srvName = "TAM (Total Active Motion)"
    /\ srvIdx = 0
    /\ srvAcc = InitialLocals(srvReq)
    /\ srvCalc = NoResult
    /\ srvStored = <<>>

\* a completion request arrives for an assessment of either kind
ServerInit ==
    /\ srvPc = "parse"
    /\ srvReq \in CompletionRequests
    /\ srvName \in AssessmentNames
    /\ srvIdx = 0
    /\ srvAcc = InitialLocals(srvReq)
    /\ srvCalc = NoResult
    /\ srvStored = <<>>

\* destructuring of req.body and the initial values of the locals
ParseBody ==
    /\ srvPc = "parse"
    /\ srvAcc' = InitialLocals(srvReq)
    /\ srvPc' = IF srvReq.hasRepetitionData THEN "fold" ELSE "store"
    /\ UNCHANGED <<srvReq, srvName, srvIdx, srvCalc, srvStored>>
    /\ UNCHANGED <<clientVars, calcVars>>

\* one iteration of repetitionData.forEach
FoldRepetition ==
    /\ srvPc = "fold"
    /\ srvIdx < Len(srvReq.repetitionData)
    /\ srvAcc' = FoldRepetitionInto(srvAcc, srvReq.repetitionData[srvIdx + 1])
    /\ srvIdx' = srvIdx + 1
    /\ UNCHANGED <<srvPc, srvReq, srvName, srvCalc, srvStored>>
    /\ UNCHANGED <<clientVars, calcVars>>

\* after the loop: final wrist maxima, then the choice of the calculation
FinishFold ==
    /\ srvPc = "fold"
    /\ srvIdx = Len(srvReq.repetitionData)
    /\ srvAcc' = FinalWristMax(srvAcc)
    /\ srvPc' = IF Len(srvAcc.allMotionFrames) > 0
                THEN IF srvName = "Kapandji Score" THEN "kapandji" ELSE "rom"
                ELSE "store"
    /\ UNCHANGED <<srvReq, srvName, srvIdx, srvCalc, srvStored>>
    /\ UNCHANGED <<clientVars, calcVars>>

\* calculateMaxKapandjiScore (shared/kapandji-calculator): one frame folded
\* into the session score, which is the highest rung reached so far
KapandjiFrame ==
    /\ srvPc = "kapandji"
    /\ srvAcc.kapandjiFolded < Len(srvAcc.allMotionFrames)
    /\ srvAcc' = [srvAcc EXCEPT
                    !.kapandjiFolded = @ + 1,
                    !.kapandjiMax =
                        Max(@, srvAcc.allMotionFrames[srvAcc.kapandjiFolded + 1].kapandji)]
    /\ UNCHANGED <<srvPc, srvReq, srvName, srvIdx, srvCalc, srvStored>>
    /\ UNCHANGED <<clientVars, calcVars>>

\* a faulty Kapandji branch that leaves kapandjiScore unassigned
KapandjiFieldsWithoutScore(acc, maxScore) ==
    [acc EXCEPT
       !.totalActiveRom = maxScore,
       !.indexFingerRom = IF maxScore >= 3 THEN 3 ELSE maxScore,
       !.middleFingerRom = IF maxScore >= 4 THEN 4 ELSE 0,
       !.ringFingerRom = IF maxScore >= 5 THEN 5 ELSE 0,
       !.pinkyFingerRom = IF maxScore >= 6 THEN 6 ELSE 0]

\* the assignments of the Kapandji branch from kapandjiResult
KapandjiFields(acc, maxScore) ==
    [acc EXCEPT
       !.kapandjiScore = maxScore,
       !.totalActiveRom = maxScore,
       !.indexFingerRom = IF maxScore >= 3 THEN 3 ELSE maxScore,
       !.middleFingerRom = IF maxScore >= 4 THEN 4 ELSE 0,
       !.ringFingerRom = IF maxScore >= 5 THEN 5 ELSE 0,
       !.pinkyFingerRom = IF maxScore >= 6 THEN 6 ELSE 0]

KapandjiDone ==
    /\ srvPc = "kapandji"
    /\ srvAcc.kapandjiFolded = Len(srvAcc.allMotionFrames)
    /\ srvAcc' = KapandjiFields(srvAcc, srvAcc.kapandjiMax)
    /\ srvPc' = "store"
    /\ UNCHANGED <<srvReq, srvName, srvIdx, srvCalc, srvStored>>
    /\ UNCHANGED <<clientVars, calcVars>>

\* the standard ROM branch: calculateAllFingersMaxROM, then the quality gate
CalcAllFingers ==
    /\ srvPc = "rom"
    /\ \E res \in AllFingersResults :
          /\ srvCalc' = res
          /\ srvAcc' = GateAllFingers(srvAcc, res)
    /\ srvPc' = "store"
    /\ UNCHANGED <<srvReq, srvName, srvIdx, srvStored>>
    /\ UNCHANGED <<clientVars, calcVars>>

\* a handler without the inner try: the exception reaches the outer catch,
\* which answers 400 and stores nothing
CalculationThrowsUncaught ==
    /\ srvPc \in {"kapandji", "rom"}
    /\ srvAcc' = [srvAcc EXCEPT !.error = 1]
    /\ srvPc' = "failed"
    /\ UNCHANGED <<srvReq, srvName, srvIdx, srvCalc, srvStored>>
    /\ UNCHANGED <<clientVars, calcVars>>

\* storage.getAssessment, the import or the calculation throws: the
\* assignments of the branch are skipped, the inner catch logs the error and
\* the handler goes on to the session number
CalculationThrows ==
    /\ srvPc \in {"kapandji", "rom"}
    /\ srvAcc' = [srvAcc EXCEPT !.error = 1]
    /\ srvPc' = "store"
    /\ UNCHANGED <<srvReq, srvName, srvIdx, srvCalc, srvStored>>
    /\ UNCHANGED <<clientVars, calcVars>>

\* sessionNumber and storage.createUserAssessment
CreateUserAssessment ==
    /\ srvPc = "store"
    /\ srvStored' = Append(srvStored,
                           UserAssessment(srvReq, srvAcc, Len(srvStored) + 1))
    /\ srvPc' = "done"
    /\ UNCHANGED <<srvReq, srvName, srvIdx, srvAcc, srvCalc>>
    /\ UNCHANGED <<clientVars, calcVars>>

ServerNext ==
    \/ ParseBody
    \/ FoldRepetition
    \/ FinishFold
    \/ KapandjiFrame
    \/ KapandjiDone
    \/ CalcAllFingers
    \/ CalculationThrows
    \/ CreateUserAssessment

ClientNext ==
    \/ \E d \in TrackerFrames : handleMediaPipeUpdate(d)
    \/ startRecording
    \/ CountdownTick
    \/ RecordingTick
    \/ stopRecording
    \/ handleRepetitionComplete
    \/ retakeRecording

\* no calculation under way
CalcIdle ==
    /\ calcPc = "idle"
    /\ calcIn = <<>>
    /\ calcOut = <<>>

Init == ClientInit /\ ServerIdle /\ CalcIdle

Next == ClientNext

Spec == Init /\ [][Next]_vars

\* the completion handler serving one request
InitComplete == ClientInit /\ ServerInit /\ CalcIdle

NextComplete == ServerNext

SpecComplete == InitComplete /\ [][NextComplete]_vars

----------------------------------------------------------------------------
\* Claims about the Recording page (checked under Spec)

RomLeq(a, b) ==
    /\ a.mcpAngle <= b.mcpAngle
    /\ a.pipAngle <= b.pipAngle
    /\ a.dipAngle <= b.dipAngle
    /\ a.totalActiveRom <= b.totalActiveRom

\* the step on which the countdown ends and a recording session begins
RecordingStarts == isCountingDown /\ ~isCountingDown'

C2_HandTypeLockHeld ==
    [][ sessionHandType # "UNKNOWN" => sessionHandType' = sessionHandType ]_vars

\* a repetition has been finalized and is held in recordedData
Finalized == recordedData # <<>>

\* C3 (as claimed): there is no transition out of FINALIZED: once a
\* repetition has been finalized, and as long as it is held, no countdown or
\* recording begins, no frame is captured, no maximum is updated and nothing
\* more is added to the recorded or submitted data.
C3_NoTransitionOutOfFinalized ==
    [][ (Finalized /\ pending = <<>> /\ recordedData' # <<>>) =>
          /\ ~isCountingDown' /\ ~isRecording'
          /\ recordedData' = recordedData
          /\ recordingMotionDataRef' = recordingMotionDataRef
          /\ maxROM' = maxROM
          /\ submitted' = submitted ]_vars

\* the stop (or the timer) has ended the recording and its completion
\* callback has not run yet
CompletionScheduled == pending # <<>>

\* C4 (as claimed): the frames submitted are exactly those captured up to the
\* stop: between the stop and the finalization the frame buffer is unchanged.
C4_FramesUpToStop ==
    [][ CompletionScheduled => recordingMotionDataRef' = recordingMotionDataRef ]_vars

LastOf(seq) == seq[Len(seq)]

\* C4 (amended): a stop during recording schedules the completion callback;
\* a scheduled callback is removed only by running, and when it runs it
\* submits exactly the frames in the buffer at that moment (those captured up
\* to the callback, which include frames that arrived after the stop), the
\* buffer being left as it is; until then the buffer only grows by appending.
C4_StopFinalizesPartial ==
    [][ /\ (isRecording /\ ~isRecording') => Len(pending') = Len(pending) + 1
        /\ Len(pending') < Len(pending) =>
              /\ Len(submitted') = Len(submitted) + 1
              /\ LastOf(LastOf(submitted').repetitionData).motionData
                    = recordingMotionDataRef
              /\ recordedData' = LastOf(submitted').repetitionData
              /\ recordingMotionDataRef' = recordingMotionDataRef
        /\ (CompletionScheduled /\ recordingMotionDataRef' # recordingMotionDataRef) =>
              /\ Len(recordingMotionDataRef') = Len(recordingMotionDataRef) + 1
              /\ SubSeq(recordingMotionDataRef', 1, Len(recordingMotionDataRef))
                    = recordingMotionDataRef ]_vars

\* C4 witness: a recording stopped by the STOP button inside the capture
\* window (the timer still shows 5..14 s) has been finalized and submitted
\* with the one frame it captured
C4_Witness ==
    /\ Len(submitted) = 1
    /\ pending = <<>>
    /\ recordingTimer \in 5..14
    /\ Len(submitted[1].repetitionData) = 1
    /\ Len(submitted[1].repetitionData[1].motionData) = 1

\* the landmark validation the claim speaks of: a detected hand, all 21
\* landmarks, every point at or above MIN_VISIBILITY
Validated(d) ==
    /\ d.handDetected
    /\ d.landmarks = HAND_LANDMARKS
    /\ d.visibility >= MIN_VISIBILITY

\* C8 (as claimed): the landmark validator is never bypassed: a frame that is
\* appended to the recorded motion data, or that changes the joint maxima,
\* has passed validation.
C8_ValidatorNeverBypassed ==
    [][ \A d \in TrackerFrames :
          (/\ handleMediaPipeUpdate(d)
           /\ \/ recordingMotionDataRef' # recordingMotionDataRef
              \/ maxROM' # maxROM)
            => Validated(d) ]_vars

\* C9 (as claimed): a frame with no hand detected or with fewer than 21 hand
\* landmarks adds no frame to the motion data and changes no session maximum.
C9_InsufficientLandmarksSkipped ==
    [][ \A d \in TrackerFrames :
          ((~d.handDetected \/ d.landmarks < HAND_LANDMARKS) /\ handleMediaPipeUpdate(d)) =>
              /\ recordingMotionDataRef' = recordingMotionDataRef
              /\ maxROM' = maxROM
              /\ sessionMaxWristAngles' = sessionMaxWristAngles
              /\ sessionMaxDeviation' = sessionMaxDeviation ]_vars

\* C10 (as claimed): when the hand type was still UNKNOWN at the press of
\* RECORD, the lock of that recording never differs from the handedness the
\* tracker then reports with confidence (no session is marked invalid).
C10_NoWrongDefaultLock ==
    (handTypeDefaulted /\ (isCountingDown \/ isRecording \/ CompletionScheduled)
        /\ detectedHandType # "UNKNOWN")
      => sessionHandType = detectedHandType

----------------------------------------------------------------------------
\* Claims about the completion handler (checked under SpecComplete)

\* the standard ROM branch has run and the row is stored
RomCalculated ==
    /\ srvPc = "done"
    /\ srvName # "Kapandji Score"
    /\ Len(srvAcc.allMotionFrames) > 0

\* the stored metrics of one finger
FingerMetrics(row, f) ==
    CASE f = "index"  -> {row.indexFingerRom, row.maxMcpAngle, row.maxPipAngle,
                          row.maxDipAngle, row.totalActiveRom}
      [] f = "middle" -> {row.middleFingerRom, row.middleFingerMcp,
                          row.middleFingerPip, row.middleFingerDip}
      [] f = "ring"   -> {row.ringFingerRom, row.ringFingerMcp,
                          row.ringFingerPip, row.ringFingerDip}
      [] f = "pinky"  -> {row.pinkyFingerRom, row.pinkyFingerMcp,
                          row.pinkyFingerPip, row.pinkyFingerDip}

\* C5 (as claimed): at finalize, every stored metric of a finger whose
\* temporal quality is below 0.7, or missing, is null: never zero, never the
\* computed value.
C5_LowQualityStoredNull ==
    RomCalculated =>
        \A f \in Fingers :
            ~QualityAccepted(srvCalc[f].quality)
                => FingerMetrics(srvStored[1], f) = {"null"}

\* what the frames of the request measured, per joint and per wrist angle
MeasuredJoint(joint) ==
    { srvAcc.allMotionFrames[i].rom[joint] :
        i \in { k \in 1..Len(srvAcc.allMotionFrames) :
                  srvAcc.allMotionFrames[k].landmarks >= HAND_LANDMARKS } }

MeasuredWrist(angle) ==
    { srvAcc.allMotionFrames[i].wristAngles[angle] :
        i \in { k \in 1..Len(srvAcc.allMotionFrames) :
                  srvAcc.allMotionFrames[k].wristAngles.present } }
      \cup ({srvReq[angle]} \ {Undefined})

\* a stored zero is a measured zero, and nothing measured is stored as null
ZeroOnlyIfMeasured(stored, measured) ==
    /\ stored = "0" => 0 \in measured
    /\ measured = {} => stored = "null"

\* C6 (as claimed): in the stored row a joint maximum, the total active ROM
\* or a wrist angle is zero only if a zero was measured, and is null when
\* nothing was measured.
C6_MissingNeverStoredAsZero ==
    srvPc = "done" =>
        LET row == srvStored[1]
        IN /\ ZeroOnlyIfMeasured(row.maxMcpAngle, MeasuredJoint("mcpAngle"))
           /\ ZeroOnlyIfMeasured(row.maxPipAngle, MeasuredJoint("pipAngle"))
           /\ ZeroOnlyIfMeasured(row.maxDipAngle, MeasuredJoint("dipAngle"))
           /\ srvName # "Kapandji Score" =>
                ZeroOnlyIfMeasured(row.totalActiveRom, MeasuredJoint("totalActiveRom"))
           /\ ZeroOnlyIfMeasured(row.wristFlexionAngle, MeasuredWrist("wristFlexionAngle"))
           /\ ZeroOnlyIfMeasured(row.wristExtensionAngle, MeasuredWrist("wristExtensionAngle"))

\* the highest rung among the first n frames
RECURSIVE MaxRung(_, _)
MaxRung(frames, n) ==
    IF n = 0 THEN 0 ELSE Max(MaxRung(frames, n - 1), frames[n].kapandji)

KapandjiScoreIsMaxRung ==
    /\ srvAcc.kapandjiMax = MaxRung(srvAcc.allMotionFrames, srvAcc.kapandjiFolded)
    /\ (/\ srvPc = "done" /\ srvName = "Kapandji Score"
        /\ Len(srvAcc.allMotionFrames) > 0 /\ srvAcc.error = Undefined)
          => /\ srvAcc.kapandjiFolded = Len(srvAcc.allMotionFrames)
             /\ srvStored[1].kapandjiScore
                    = ToString(MaxRung(srvAcc.allMotionFrames, Len(srvAcc.allMotionFrames)))

----------------------------------------------------------------------------
\* One recording fed the same frames twice, the clock read by
\* handleMediaPipeUpdate (Date.now() against recordingStartTimeRef) being
\* free in each run (checked under SpecTwice)

MaxFed == 2             \* frames fed to the two runs

\* seconds since the start of the recording at which a frame may arrive:
\* at the start, inside the capture window, after it
ArrivalTimes == {0, 1, CAPTURE_WINDOW + 1}

FedFrames == UNION { [1..n -> TrackerFrames] : n \in 1..MaxFed }

\* the clock never runs backwards
Clocks(n) ==
    { c \in [1..n -> ArrivalTimes] : \A i \in 1..n : \A j \in i..n : c[i] <= c[j] }

\* the recording as the countdown end leaves it
NewSession == [maxROM |-> ZeroROM, frames |-> <<>>]

\* handleMediaPipeUpdate while isRecording, on the joint maxima and the
\* frame buffer: d arrives `elapsed` seconds after the start
RecordingFrame(s, d, elapsed, lock) ==
    [maxROM |-> IF d.landmarks >= HAND_LANDMARKS
                THEN MaxJointAngles(s.maxROM, d.rom)
                ELSE s.maxROM,
     frames |-> IF CaptureCondition(elapsed, d)
                THEN Append(s.frames, MotionFrame(d, lock))
                ELSE s.frames]

InitTwice ==
    /\ ClientInit /\ ServerIdle
    /\ calcPc = "feed"
    /\ calcIn \in UNION { { [frames |-> f, first |-> a, second |-> b] :
                              a \in Clocks(Len(f)), b \in Clocks(Len(f)) } :
                          f \in FedFrames }
    /\ calcOut = [fed |-> 0, first |-> NewSession, second |-> NewSession]

\* the next frame reaches both runs
FeedTwice ==
    /\ calcPc = "feed"
    /\ calcOut.fed < Len(calcIn.frames)
    /\ LET i == calcOut.fed + 1
           d == calcIn.frames[i]
       IN calcOut' = [fed    |-> i,
                      first  |-> RecordingFrame(calcOut.first, d, calcIn.first[i], "LEFT"),
                      second |-> RecordingFrame(calcOut.second, d, calcIn.second[i], "LEFT")]
    /\ UNCHANGED <<calcPc, calcIn, clientVars, serverVars>>

\* both runs are finalized by handleRepetitionComplete
FinishTwice ==
    /\ calcPc = "feed"
    /\ calcOut.fed = Len(calcIn.frames)
    /\ calcPc' = "done"
    /\ calcOut' = [fed    |-> calcOut.fed,
                   first  |-> RepetitionData(calcOut.first, calcOut.first.frames),
                   second |-> RepetitionData(calcOut.second, calcOut.second.frames)]
    /\ UNCHANGED <<calcIn, clientVars, serverVars>>

NextTwice == FeedTwice \/ FinishTwice

SpecTwice == InitTwice /\ [][NextTwice]_vars

\* C11 (as claimed): the same sequence of frames fed twice gives the same
\* captured frames and the same maxima, whatever the wall clock reads.
C11_SameFramesSameResult ==
    calcPc = "done" => calcOut.first = calcOut.second

----------------------------------------------------------------------------
\* Further claims about the Recording page (checked under Spec)

\* the recording whose frames the buffer holds is under way: from the end of
\* the countdown until its completion callback has run
RecordingUnderWay == recordingElapsed # Null

\* C12 (as claimed): during one recording every frame captured carries the same
\* handedness, that of the session lock, whatever the tracker estimates for
\* the frame.
C12_FramesCarryTheLock ==
    RecordingUnderWay =>
        \A i \in 1..Len(recordingMotionDataRef) :
            recordingMotionDataRef[i].handedness = sessionHandType

\* C13 (as claimed): what is submitted for one recording holds only what
\* that recording collected: one repetition, and no repetition or frame of
\* an earlier recording on the page.
C13_NothingCarriedOver ==
    \A k \in 1..Len(submitted) : Len(submitted[k].repetitionData) = 1

----------------------------------------------------------------------------
\* Further claims about the completion handler (checked under SpecComplete)

\* the largest element of a non-empty set of numbers
LargestOf(S) == CHOOSE x \in S : \A y \in S : x >= y

Reps == { srvReq.repetitionData[i] : i \in 1..Len(srvReq.repetitionData) }

\* the values a request supplies for one joint maximum
SuppliedJoint(joint) == { OrZero(rep.romData[joint]) : rep \in Reps }

\* the values a request supplies for one wrist maximum: at top level, per
\* repetition (current and maximum) and per frame
SuppliedWrist(current, maximum) ==
    ({ srvReq[current], srvReq[maximum] }
        \cup { rep[current] : rep \in Reps }
        \cup { rep[maximum] : rep \in Reps }
        \cup UNION { { rep.motionData[i].wristAngles[current] :
                          i \in { k \in 1..Len(rep.motionData) :
                                    rep.motionData[k].wristAngles.present } } :
                     rep \in Reps })
      \ {Undefined, Null}

----------------------------------------------------------------------------
\* The temporal quality of one finger and the gate applied to it (checked
\* under SpecQuality). The quality is assigned by calculateAllFingersMaxROM
\* (shared/rom-calculator) as the changelog of 24 June 2025 describes it.

MaxSessionFrames == 5       \* frames of one session
VISIBILITY_BYPASS == 8      \* visible in >= 80% of the frames, in tenths

\* total active ROM of a finger: none, ordinary, anomalously large
FingerValues == {0, 4, 300}

\* quality after frame-to-frame validation, 0.3 .. 0.9 in tenths
ValidatedScores == 3..9

\* bypassed (1.0) when the finger is visible in >= 80% of the frames,
\* otherwise the validated score
TemporalQualityOf(visible, total, validated) ==
    IF visible * 10 >= VISIBILITY_BYPASS * total THEN 10 ELSE validated

InitQuality ==
    /\ ClientInit /\ ServerIdle
    /\ calcPc = "quality"
    /\ calcIn \in { [total |-> t, visible |-> v, value |-> x, validated |-> q] :
                      t \in 1..MaxSessionFrames, v \in 0..MaxSessionFrames,
                      x \in FingerValues, q \in ValidatedScores }
    /\ calcIn.visible <= calcIn.total
    /\ calcOut = <<>>

\* calculateAllFingersMaxROM assigns the finger's temporal quality
AssessQuality ==
    /\ calcPc = "quality"
    /\ calcPc' = "gate"
    /\ calcOut' = [quality |-> TemporalQualityOf(calcIn.visible, calcIn.total,
                                                  calcIn.validated)]
    /\ UNCHANGED <<calcIn, clientVars, serverVars>>

\* the handler gates the finger's value and stores it
GateFinger ==
    /\ calcPc = "gate"
    /\ calcPc' = "done"
    /\ calcOut' = [quality |-> calcOut.quality,
                   stored  |-> Stored(Gated(calcOut.quality, calcIn.value))]
    /\ UNCHANGED <<calcIn, clientVars, serverVars>>

NextQuality == AssessQuality \/ GateFinger

SpecQuality == InitQuality /\ [][NextQuality]_vars

\* C15 (as claimed): a finger visible in at least 80% of the frames has
\* quality 1.0 and its value is stored as computed, not nulled, whatever its
\* magnitude.
C15_VisibleFingerReported ==
    (calcPc = "done" /\ calcIn.visible * 10 >= VISIBILITY_BYPASS * calcIn.total) =>
        /\ calcOut.quality = 10
        /\ calcOut.stored = ToString(calcIn.value)

----------------------------------------------------------------------------
\* Recordings with too few frames (checked under SpecComplete)

\* a stored row says of itself that the recording is incomplete
FlaggedIncomplete(row) ==
    \/ "isIncomplete" \in DOMAIN row /\ row["isIncomplete"] = TRUE
    \/ row.isCompleted = FALSE

\* C16 (as claimed): a recording with fewer frames than any minimum, here a
\* recording with no frame at all, is still finalized into a stored row and
\* that row is flagged incomplete.
C16_ShortRecordingFlagged ==
    (srvPc = "done" /\ srvReq.hasRepetitionData
                    /\ FramesIn(srvReq.repetitionData) = 0) =>
        /\ Len(srvStored) = 1
        /\ FlaggedIncomplete(srvStored[1])

----------------------------------------------------------------------------
\* The kind of assessment a session is treated as, at the three places that
\* decide it: while recording a frame, when aggregating, and when replaying
\* (checked under SpecKind).

MaxKindFrames == 3

\* names of assessments of the catalogue
CatalogueNames ==
    {"TAM (Total Active Motion)", "Kapandji Score",
     "Wrist Flexion/Extension", "Wrist Radial/Ulnar Deviation"}

\* name.toLowerCase().includes(word), for the words the code looks for
NameIncludes(name, word) ==
    word \in (CASE name = "TAM (Total Active Motion)" -> {}
                [] name = "Kapandji Score" -> {}
                [] name = "Wrist Flexion/Extension" -> {"wrist", "flexion", "extension"}
                [] name = "Wrist Radial/Ulnar Deviation" ->
                       {"wrist", "radial", "ulnar", "deviation"})

\* handleMediaPipeUpdate, for each captured frame: wrist-family when the name
\* includes wrist, flexion or extension
FrameKind(name) ==
    IF \/ NameIncludes(name, "wrist") \/ NameIncludes(name, "flexion")
       \/ NameIncludes(name, "extension")
    THEN "wrist-family" ELSE "hand"

\* the completion handler: Kapandji scoring for the exact name, the finger
\* ROM calculation for every other assessment
AggregationKind(name) == IF name = "Kapandji Score" THEN "Kapandji" ELSE "TAM"

\* drawFrame, for each replayed frame
ReplayKind(name) ==
    IF \/ NameIncludes(name, "wrist")
       \/ NameIncludes(name, "forearm") \/ NameIncludes(name, "pronation")
       \/ NameIncludes(name, "supination")
       \/ NameIncludes(name, "deviation") \/ NameIncludes(name, "radial")
       \/ NameIncludes(name, "ulnar")
    THEN "wrist-family" ELSE "hand"

\* frames of one session, as the tracker delivers them inside the window
KindFrames ==
    UNION { [1..n -> {t \in TrackerFrames : t.handDetected /\ t.landmarks > 0}] :
              n \in 1..MaxKindFrames }

InitKind ==
    /\ ClientInit /\ ServerIdle
    /\ calcPc = "record"
    /\ calcIn \in { [name |-> n, frames |-> fs] : n \in CatalogueNames, fs \in KindFrames }
    /\ calcOut = [frames |-> <<>>, aggregation |-> "none", replay |-> <<>>]

\* one captured frame: the kind is decided from the name, the frame keeps
\* frameWristAngles || data.wristAngles || null
RecordFrameOfKind ==
    /\ calcPc = "record"
    /\ Len(calcOut.frames) < Len(calcIn.frames)
    /\ LET d == calcIn.frames[Len(calcOut.frames) + 1]
       IN calcOut' = [calcOut EXCEPT !.frames =
                         Append(@, [kind |-> FrameKind(calcIn.name),
                                    frame |-> MotionFrame(d, "LEFT")])]
    /\ UNCHANGED <<calcPc, calcIn, clientVars, serverVars>>

\* the completion handler chooses the calculation
AggregateOfKind ==
    /\ calcPc = "record"
    /\ Len(calcOut.frames) = Len(calcIn.frames)
    /\ calcPc' = "replay"
    /\ calcOut' = [calcOut EXCEPT !.aggregation = AggregationKind(calcIn.name)]
    /\ UNCHANGED <<calcIn, clientVars, serverVars>>

\* the replay page draws one stored frame
DrawFrameOfKind ==
    /\ calcPc = "replay"
    /\ Len(calcOut.replay) < Len(calcOut.frames)
    /\ calcOut' = [calcOut EXCEPT !.replay = Append(@, ReplayKind(calcIn.name))]
    /\ UNCHANGED <<calcPc, calcIn, clientVars, serverVars>>

NextKind == RecordFrameOfKind \/ AggregateOfKind \/ DrawFrameOfKind

SpecKind == InitKind /\ [][NextKind]_vars

\* whether a kind belongs to the wrist family or to the hand assessments
\* (TAM, Kapandji)
FamilyOf(kind) == IF kind = "wrist-family" THEN "wrist-family" ELSE "hand"

\* C17 (as claimed): the session has one kind: every recorded frame, the
\* aggregation and every replayed frame are treated as the same kind of
\* assessment.
C17_OneKindPerSession ==
    calcPc = "replay" =>
        /\ \A i \in 1..Len(calcOut.frames) :
              FamilyOf(calcOut.frames[i].kind) = FamilyOf(calcOut.aggregation)
        /\ \A i \in 1..Len(calcOut.replay) :
              FamilyOf(calcOut.replay[i]) = FamilyOf(calcOut.aggregation)

----------------------------------------------------------------------------
\* The reference algorithm for the signed wrist angle (wrist_angle.py),
\* checked under SpecWrist. Coordinates are integers in hundredths of the
\* image unit; the arithmetic is exact. The angle is kept as its sign and its
\* magnitude in whole tens of degrees, rounded down.

GridStep == 2       \* grid coordinates are -GridStep, 0, GridStep

Point(x, y, z) == [x |-> x, y |-> y, z |-> z]

\* frames[:, b] - frames[:, a]
Minus(b, a) == Point(b.x - a.x, b.y - a.y, b.z - a.z)

Dot(u, v) == u.x * v.x + u.y * v.y + u.z * v.z

\* z-component of u x v
CrossZ(u, v) == u.x * v.y - u.y * v.x

\* cosine of 0, 10, .. 180 degrees, in hundredths
CosPct(d) ==
    LET T == <<100, 98, 94, 87, 77, 64, 50, 34, 17, 0>>
    IN IF d <= 90 THEN T[(d \div 10) + 1] ELSE -T[((180 - d) \div 10) + 1]

\* arccos(dot of the unit vectors) >= d degrees, for vectors u, v; _unit
\* leaves a zero vector as it is, so that the dot product is then 0
ThetaAtLeast(d, u, v) ==
    LET dot == Dot(u, v)
        nn  == Dot(u, u) * Dot(v, v)
        c   == CosPct(d)
    IN IF dot >= 0 /\ c >= 0 THEN 10000 * dot * dot <= c * c * nn
       ELSE IF dot < 0 /\ c < 0 THEN 10000 * dot * dot >= c * c * nn
       ELSE dot < 0

\* theta = arccos(dot) * DEG, in whole tens of degrees rounded down
Theta(u, v) ==
    10 * Cardinality({ j \in 1..18 : ThetaAtLeast(10 * j, u, v) })

\* theta is exactly 0: the vectors point the same way
ThetaIsZero(u, v) ==
    /\ Dot(u, v) > 0
    /\ Dot(u, v) * Dot(u, v) = Dot(u, u) * Dot(v, v)

\* np.sign(cross[:, 2] + 1e-9): the bias makes a zero cross product positive
SignRaw(u, v) == IF CrossZ(u, v) >= 0 THEN 1 ELSE -1

\* np.where(wrist.x < elbow.x, -1, 1)
SideFactor(elbow, wrist) == IF wrist.x < elbow.x THEN -1 ELSE 1

\* signed_theta = theta * sign_raw * side_factor for one frame
\* <<ELBOW, WRIST, MIDDLE_MCP>>, median filter off
wrist_angle(frame) ==
    LET forearm == Minus(frame[2], frame[1])
        handvec == Minus(frame[3], frame[2])
    IN [sign    |-> IF ThetaIsZero(forearm, handvec) THEN 0
                    ELSE SignRaw(forearm, handvec) * SideFactor(frame[1], frame[2]),
        degrees |-> Theta(forearm, handvec)]

\* the three frames of the unit test
RightFlexion   == <<Point(10, 30, 0),  Point(20, 50, 0),  Point(18, 45, 15)>>
RightExtension == <<Point(10, 30, 0),  Point(20, 50, 0),  Point(22, 55, 15)>>
LeftFlexion    == <<Point(-10, 30, 0), Point(-20, 50, 0), Point(-18, 45, 15)>>

GridPoints ==
    { Point(x, y, z) : x \in {-GridStep, 0, GridStep}, y \in {-GridStep, 0, GridStep},
                       z \in {-GridStep, 0, GridStep} }

WristFrames ==
    {RightFlexion, RightExtension, LeftFlexion}
        \cup { <<Point(0, 0, 0), w, h>> : w \in GridPoints, h \in GridPoints }

\* the same three points seen in a mirror: every x negated
Mirrored(frame) == [i \in 1..3 |-> Point(-frame[i].x, frame[i].y, frame[i].z)]

InitWrist ==
    /\ ClientInit /\ ServerIdle
    /\ calcPc = "angle"
    /\ calcIn \in WristFrames
    /\ calcOut = <<>>

ComputeWristAngle ==
    /\ calcPc = "angle"
    /\ calcPc' = "mirror"
    /\ calcOut' = [angle |-> wrist_angle(calcIn)]
    /\ UNCHANGED <<calcIn, clientVars, serverVars>>

ComputeMirroredAngle ==
    /\ calcPc = "mirror"
    /\ calcPc' = "done"
    /\ calcOut' = [angle |-> calcOut.angle, mirrored |-> wrist_angle(Mirrored(calcIn))]
    /\ UNCHANGED <<calcIn, clientVars, serverVars>>

NextWrist == ComputeWristAngle \/ ComputeMirroredAngle

SpecWrist == InitWrist /\ [][NextWrist]_vars

\* an angle that rounds to the given whole number of degrees (a multiple of
\* ten) lies in the ten degrees below it or in the ten degrees from it
About(angle, sign, degrees) ==
    /\ angle.sign = sign
    /\ angle.degrees \in {degrees - 10, degrees}

\* C18 (as claimed): the three frames of the unit test give about +60, -30
\* and +60 degrees.
C18_LiteralScenarios ==
    calcPc = "done" =>
        /\ calcIn = RightFlexion   => About(calcOut.angle, 1, 60)
        /\ calcIn = RightExtension => About(calcOut.angle, -1, 30)
        /\ calcIn = LeftFlexion    => About(calcOut.angle, 1, 60)

\* C19 (as claimed): negating every x coordinate of elbow, wrist and hand
\* leaves the sign of the signed wrist angle unchanged.
C19_MirrorKeepsSign ==
    calcPc = "done" => calcOut.mirrored.sign = calcOut.angle.sign

----------------------------------------------------------------------------
\* The optional moving median of wrist_angle (checked under SpecMedian).
\* np.median of an even number of values is the mean of the two middle ones,
\* so the filtered angles are kept doubled to stay in the integers.

MaxSeqLen == 6      \* frames of one filtered sequence

\* signed angles of the frames, in degrees
AngleValues == {10, 50}

\* window lengths: 1 is off
WindowLengths == {1, 3, 5}

AngleSeqs == UNION { [1..n -> AngleValues] : n \in 3..MaxSeqLen }

\* the m-th smallest value of a buffer
KthSmallest(buf, m) ==
    LET vals == { buf[j] : j \in 1..Len(buf) }
    IN CHOOSE v \in vals :
          /\ Cardinality({ j \in 1..Len(buf) : buf[j] < v }) < m
          /\ Cardinality({ j \in 1..Len(buf) : buf[j] <= v }) >= m

\* 2 * np.median(list(buf))
Median2(buf) ==
    LET n == Len(buf)
    IN IF n % 2 = 1 THEN 2 * KthSmallest(buf, (n + 1) \div 2)
       ELSE KthSmallest(buf, n \div 2) + KthSmallest(buf, (n \div 2) + 1)

\* buf.append(val) on a deque(maxlen = k)
DequeAppend(buf, val, k) ==
    IF Len(buf) = k THEN Append(Tail(buf), val) ELSE Append(buf, val)

InitMedian ==
    /\ ClientInit /\ ServerIdle
    /\ calcPc = "start"
    /\ calcIn \in { [median_k |-> k, signed_theta |-> th] :
                      k \in WindowLengths, th \in AngleSeqs }
    /\ calcOut = <<>>

\* if median_k > 1 and signed_theta.size >= median_k: ... ; otherwise the
\* angles are returned as they are
StartFilter ==
    /\ calcPc = "start"
    /\ LET n == Len(calcIn.signed_theta)
       IN IF calcIn.median_k > 1 /\ n >= calcIn.median_k
          THEN /\ calcPc' = "loop"
               /\ calcOut' = [out |-> [j \in 1..n |-> "empty"], buf |-> <<>>, i |-> 0]
          ELSE /\ calcPc' = "done"
               /\ calcOut' = [out |-> [j \in 1..n |-> 2 * calcIn.signed_theta[j]],
                              buf |-> <<>>, i |-> n]
    /\ UNCHANGED <<calcIn, clientVars, serverVars>>

\* one iteration of: for i, val in enumerate(signed_theta)
MedianStep ==
    /\ calcPc = "loop"
    /\ calcOut.i < Len(calcIn.signed_theta)
    /\ LET i    == calcOut.i
           half == calcIn.median_k \div 2
           buf  == DequeAppend(calcOut.buf, calcIn.signed_theta[i + 1], calcIn.median_k)
           at   == IF i < half THEN i ELSE i - half
       IN calcOut' = [out |-> [calcOut.out EXCEPT ![at + 1] = Median2(buf)],
                      buf |-> buf, i |-> i + 1]
    /\ UNCHANGED <<calcPc, calcIn, clientVars, serverVars>>

\* the tail: for i in range(half): out[-(i + 1)] = out[-(half + 1)]
MedianTail ==
    /\ calcPc = "loop"
    /\ calcOut.i = Len(calcIn.signed_theta)
    /\ calcPc' = "done"
    /\ LET n    == Len(calcIn.signed_theta)
           half == calcIn.median_k \div 2
       IN calcOut' = [calcOut EXCEPT !.out =
                         [j \in 1..n |-> IF j > n - half THEN calcOut.out[n - half]
                                         ELSE calcOut.out[j]]]
    /\ UNCHANGED <<calcIn, clientVars, serverVars>>

NextMedian == StartFilter \/ MedianStep \/ MedianTail

SpecMedian == InitMedian /\ [][NextMedian]_vars

\* the sequence is constant except for frame p
SpikeAt(theta, p) ==
    /\ \A q \in (1..Len(theta)) \ {p} : theta[q] # theta[p]
    /\ \A q, r \in (1..Len(theta)) \ {p} : theta[q] = theta[r]

\* C20 (as claimed): with a window of odd length k >= 3 on a sequence of at
\* least k frames, a spike in a single frame of an otherwise constant
\* sequence, at any position, leaves no trace: every filtered angle is the
\* constant.
C20_SingleSpikeSuppressed ==
    (calcPc = "done" /\ calcIn.median_k >= 3
                     /\ Len(calcIn.signed_theta) >= calcIn.median_k) =>
        \A p \in 1..Len(calcIn.signed_theta) :
            SpikeAt(calcIn.signed_theta, p) =>
                \A j \in 1..Len(calcIn.signed_theta) :
                    calcOut.out[j] = 2 * calcIn.signed_theta[IF p = 1 THEN 2 ELSE 1]

----------------------------------------------------------------------------
\* The motion replay page (checked under SpecReplay). calcIn holds the props
\* of PatientMotionReplay, which do not change while the page is mounted;
\* calcOut holds its state: isPlaying, currentFrame, intervalRef (TRUE when a
\* playback timer is set) and what drawFrame has drawn so far.

MaxReplayFrames == 3

\* stored frames as the replay page looks at them: where the thumb tip lies
\* relative to the index MCP ("none" when the frame has no landmarks) and
\* whether the pose landmarks are there
ReplayFrames ==
    { [thumb |-> "right", pose |-> TRUE], [thumb |-> "left", pose |-> TRUE],
      [thumb |-> "right", pose |-> FALSE], [thumb |-> "none", pose |-> TRUE] }

ReplayRecordings == UNION { [1..n -> ReplayFrames] : n \in 1..MaxReplayFrames }

\* detectHandedness: from the first frame only
detectHandedness(motionFrames) ==
    IF Len(motionFrames) = 0 \/ motionFrames[1].thumb = "none" THEN "Unknown"
    ELSE IF motionFrames[1].thumb = "right" THEN "Right Hand" ELSE "Left Hand"

\* a faulty selection that looks at the frame being drawn
ActiveSidePerFrame(handedness, frameData) ==
    IF frameData.thumb = "right" THEN "right" ELSE "left"

\* drawFrame: the side of activeShoulder, activeElbow and activeWrist
ActiveSide(handedness, frameData) ==
    IF handedness = "Right Hand" THEN "right" ELSE "left"

\* what drawFrame adds to the canvas history for frame number i (0-based)
Drawn(props, i) ==
    LET frameData == props.recordingData[i + 1]
    IN IF frameData.thumb = "none" THEN {}
       ELSE IF ReplayKind(props.assessmentName) = "wrist-family" /\ frameData.pose
            THEN {<<i, ActiveSide(props.handedness, frameData)>>}
            ELSE {}

\* a faulty updater that goes back to the first frame after the last
NextFrameWrapping(prev, totalFrames) == (prev + 1) % totalFrames

\* the frame the setCurrentFrame updater returns
NextFrame(prev, totalFrames) ==
    IF prev >= totalFrames - 1 THEN prev ELSE prev + 1

TotalFrames == Len(calcIn.recordingData)

InitReplay ==
    /\ ClientInit /\ ServerIdle
    /\ calcPc = "mounted"
    /\ calcIn \in { [assessmentName |-> n, recordingData |-> fs,
                     handedness |-> detectHandedness(fs)] :
                      n \in {"TAM (Total Active Motion)", "Wrist Flexion/Extension"},
                      fs \in ReplayRecordings }
    /\ calcOut = [isPlaying |-> FALSE, currentFrame |-> 0, intervalRef |-> FALSE,
                  drawn |-> Drawn(calcIn, 0)]

\* togglePlayback while playing
Pause ==
    /\ calcOut.isPlaying
    /\ calcOut' = [calcOut EXCEPT !.isPlaying = FALSE, !.intervalRef = FALSE]
    /\ UNCHANGED <<calcPc, calcIn, clientVars, serverVars>>

\* togglePlayback while not playing
Play ==
    /\ ~calcOut.isPlaying
    /\ calcOut' = [calcOut EXCEPT !.isPlaying = TRUE, !.intervalRef = TRUE]
    /\ UNCHANGED <<calcPc, calcIn, clientVars, serverVars>>

\* the interval callback, every 33 ms while the timer is set, and the draw
\* effect of the render that follows
PlaybackTick ==
    /\ calcOut.intervalRef
    /\ LET prev == calcOut.currentFrame
           next == NextFrame(prev, TotalFrames)
           atEnd == prev >= TotalFrames - 1
       IN calcOut' = [isPlaying    |-> IF atEnd THEN FALSE ELSE calcOut.isPlaying,
                      intervalRef  |-> IF atEnd THEN FALSE ELSE calcOut.intervalRef,
                      currentFrame |-> next,
                      drawn        |-> IF next # prev
                                       THEN calcOut.drawn \cup Drawn(calcIn, next)
                                       ELSE calcOut.drawn]
    /\ UNCHANGED <<calcPc, calcIn, clientVars, serverVars>>

resetPlayback ==
    /\ calcOut' = [isPlaying |-> FALSE, intervalRef |-> FALSE, currentFrame |-> 0,
                   drawn |-> IF calcOut.currentFrame # 0
                             THEN calcOut.drawn \cup Drawn(calcIn, 0)
                             ELSE calcOut.drawn]
    /\ UNCHANGED <<calcPc, calcIn, clientVars, serverVars>>

NextReplay == Pause \/ Play \/ PlaybackTick \/ resetPlayback

SpecReplay == InitReplay /\ [][NextReplay]_vars

\* C21: every frame of a replay is drawn with the skeleton of the same
\* side, left or right.
C21_ReplaySideLocked ==
    \A a, b \in calcOut.drawn : a[2] = b[2]

\* two frames in which the thumb lies on opposite sides have both been drawn
C21_Witness ==
    \E a, b \in calcOut.drawn :
        calcIn.recordingData[a[1] + 1].thumb # calcIn.recordingData[b[1] + 1].thumb

FrameInRange(st) == st.currentFrame \in 0..(TotalFrames - 1)

\* C30: under play, pause, reset and playback ticks the current frame index
\* stays within 0 .. totalFrames - 1, and a tick at the last frame keeps the
\* index there, clears the playing flag and clears the timer.
C30_PlaybackStopsAtLastFrame ==
    [][ /\ FrameInRange(calcOut) /\ FrameInRange(calcOut')
        /\ (PlaybackTick /\ calcOut.currentFrame = TotalFrames - 1) =>
              /\ calcOut'.currentFrame = TotalFrames - 1
              /\ ~calcOut'.isPlaying
              /\ ~calcOut'.intervalRef ]_vars

\* playback of a recording of several frames has come to rest on the last one
C30_Witness ==
    /\ TotalFrames = MaxReplayFrames
    /\ calcOut.currentFrame = TotalFrames - 1
    /\ ~calcOut.isPlaying /\ ~calcOut.intervalRef

----------------------------------------------------------------------------
\* The clinical dashboard's patient routes (checked under SpecAccess).
\* calcIn is the patient table, calcOut the last request and its response.

\* clinical users by id (the bearer token is the id); 0 is no valid token
ClinicalUsers ==
    [u \in 1..3 |-> [id |-> u, role |-> IF u = 3 THEN "admin" ELSE "clinician"]]

PatientIds == {1, 2}

\* ids a request may name: the patients and one id that does not exist
RequestedIds == PatientIds \cup {3}

\* the handlers registered for GET /api/patients/:id/assessments, in the
\* order of registration
AssessmentsHandlers == <<"history", "checked">>

\* Express runs the first handler registered for the route; neither handler
\* calls next()
RoutedHandler(handlers) == handlers[1]

Response(u, route, id, status, body, modified) ==
    [user |-> u, route |-> route, id |-> id, status |-> status, body |-> body,
     modified |-> modified]

\* role === 'clinician' && patient.assignedClinicianId !== req.user.id
AccessDenied(u, patient) ==
    ClinicalUsers[u].role = "clinician" /\ patient.assignedClinicianId # u

InitAccess ==
    /\ ClientInit /\ ServerIdle
    /\ calcPc = "serving"
    /\ calcIn \in [PatientIds -> [assignedClinicianId : {1, 2}, note : {0}]]
    /\ calcOut = Response(0, "none", 0, 0, "none", FALSE)

\* requireAuth refuses a request without a valid token
Unauthenticated ==
    /\ \E route \in {"GET patient", "GET assessments", "PUT patient"}, id \in RequestedIds :
          calcOut' = Response(0, route, id, 401, "none", FALSE)
    /\ UNCHANGED <<calcPc, calcIn, clientVars, serverVars>>

\* GET /api/patients/:id
GetPatient ==
    /\ \E u \in DOMAIN ClinicalUsers, id \in RequestedIds :
          calcOut' = IF id \notin PatientIds
                     THEN Response(u, "GET patient", id, 404, "none", FALSE)
                     ELSE IF AccessDenied(u, calcIn[id])
                     THEN Response(u, "GET patient", id, 403, "none", FALSE)
                     ELSE Response(u, "GET patient", id, 200, "patient", FALSE)
    /\ UNCHANGED <<calcPc, calcIn, clientVars, serverVars>>

\* GET /api/patients/:id/assessments
GetPatientAssessments ==
    /\ \E u \in DOMAIN ClinicalUsers, id \in RequestedIds :
          calcOut' = IF RoutedHandler(AssessmentsHandlers) = "history"
                     THEN Response(u, "GET assessments", id, 200, "assessments", FALSE)
                     ELSE IF id \notin PatientIds
                     THEN Response(u, "GET assessments", id, 404, "none", FALSE)
                     ELSE IF AccessDenied(u, calcIn[id])
                     THEN Response(u, "GET assessments", id, 403, "none", FALSE)
                     ELSE Response(u, "GET assessments", id, 200, "assessments", FALSE)
    /\ UNCHANGED <<calcPc, calcIn, clientVars, serverVars>>

\* PUT /api/patients/:id
PutPatient ==
    /\ \E u \in DOMAIN ClinicalUsers, id \in RequestedIds :
          IF id \notin PatientIds
          THEN /\ calcOut' = Response(u, "PUT patient", id, 404, "none", FALSE)
               /\ UNCHANGED calcIn
          ELSE IF AccessDenied(u, calcIn[id])
          THEN /\ calcOut' = Response(u, "PUT patient", id, 403, "none", FALSE)
               /\ UNCHANGED calcIn
          ELSE /\ calcOut' = Response(u, "PUT patient", id, 200, "patient", TRUE)
               /\ calcIn' = [calcIn EXCEPT ![id].note = 1 - @]
    /\ UNCHANGED <<calcPc, clientVars, serverVars>>

NextAccess == Unauthenticated \/ GetPatient \/ GetPatientAssessments \/ PutPatient

SpecAccess == InitAccess /\ [][NextAccess]_vars

\* C22 (as claimed): a clinician's request to read or modify a patient of
\* another clinician is answered 403, returns nothing of the patient and
\* changes nothing.
C22_OnlyOwnPatients ==
    (/\ calcOut.user \in {1, 2}
     /\ calcOut.id \in PatientIds
     /\ calcIn[calcOut.id].assignedClinicianId # calcOut.user) =>
        /\ calcOut.status = 403
        /\ calcOut.body = "none"
        /\ ~calcOut.modified

----------------------------------------------------------------------------
\* Patient creation and data export (checked under SpecAdmin). calcOut holds
\* the users table (patients of the patient app, column code), the patients
\* table (patients of the clinical dashboard, column accessCode), the audit
\* log and the exports that were answered successfully.

MaxRequests == 3    \* requests served in one behaviour

\* Math.floor(100000 + Math.random() * 900000).toString(), two of its values
AccessCodes == {"100000", "100001"}

\* storage.createUser / storage.createPatient: a table refuses a code it
\* already holds (the handler then answers with an error)
Inserted(table, code) ==
    IF \E i \in 1..Len(table) : table[i] = code THEN table ELSE Append(table, code)

RequestsServed ==
    Len(calcOut.users) + Len(calcOut.patients) + Len(calcOut.exports)

InitAdmin ==
    /\ ClientInit /\ ServerIdle
    /\ calcPc = "serving"
    /\ calcIn = <<>>
    /\ calcOut = [users |-> <<>>, patients |-> <<>>, audit |-> <<>>, exports |-> <<>>]

\* POST /api/admin/generate-code
GenerateCode ==
    /\ RequestsServed < MaxRequests
    /\ \E accessCode \in AccessCodes :
          calcOut' = [calcOut EXCEPT !.users = Inserted(@, accessCode)]
    /\ UNCHANGED <<calcPc, calcIn, clientVars, serverVars>>

\* POST /api/patients
CreatePatient ==
    /\ RequestsServed < MaxRequests
    /\ \E accessCode \in AccessCodes :
          calcOut' = IF Inserted(calcOut.patients, accessCode) = calcOut.patients
                     THEN calcOut
                     ELSE [calcOut EXCEPT !.patients = Inserted(@, accessCode),
                                          !.audit = Append(@, "patient_create")]
    /\ UNCHANGED <<calcPc, calcIn, clientVars, serverVars>>

\* an export answered successfully, and the audit entries its handler writes
Exported(route, entries) ==
    [calcOut EXCEPT !.exports = Append(@, route), !.audit = @ \o entries]

\* POST /api/export
PostExport ==
    /\ RequestsServed < MaxRequests
    /\ calcOut' = Exported("POST /api/export", <<"data_export">>)
    /\ UNCHANGED <<calcPc, calcIn, clientVars, serverVars>>

\* GET /api/admin/download/:userId
AdminDownload ==
    /\ RequestsServed < MaxRequests
    /\ calcOut' = Exported("GET /api/admin/download/:userId", <<>>)
    /\ UNCHANGED <<calcPc, calcIn, clientVars, serverVars>>

\* GET /api/admin/export
AdminExport ==
    /\ RequestsServed < MaxRequests
    /\ calcOut' = Exported("GET /api/admin/export", <<>>)
    /\ UNCHANGED <<calcPc, calcIn, clientVars, serverVars>>

\* GET /api/admin/patients/csv
AdminPatientsCsv ==
    /\ RequestsServed < MaxRequests
    /\ calcOut' = Exported("GET /api/admin/patients/csv", <<"csv_export">>)
    /\ UNCHANGED <<calcPc, calcIn, clientVars, serverVars>>

\* GET /api/admin/patients/:patientCode/download-all
AdminDownloadAll ==
    /\ RequestsServed < MaxRequests
    /\ calcOut' = Exported("GET /api/admin/patients/:patientCode/download-all",
                           <<"bulk_download">>)
    /\ UNCHANGED <<calcPc, calcIn, clientVars, serverVars>>

NextAdmin ==
    \/ GenerateCode \/ CreatePatient \/ PostExport \/ AdminDownload \/ AdminExport
    \/ AdminPatientsCsv \/ AdminDownloadAll

SpecAdmin == InitAdmin /\ [][NextAdmin]_vars

\* C23 (as claimed): no two patients, of either table, hold the same access
\* code.
C23_AccessCodesUnique ==
    LET codes == calcOut.users \o calcOut.patients
    IN \A i, j \in 1..Len(codes) : codes[i] = codes[j] => i = j

\* audit entries that record an export or a download
ExportEntries ==
    { i \in 1..Len(calcOut.audit) :
        calcOut.audit[i] \in {"data_export", "csv_export", "bulk_download"} }

\* C24 (as claimed): every export or download answered successfully has its
\* audit-log entry.
C24_EveryExportLogged ==
    Cardinality(ExportEntries) = Len(calcOut.exports)

----------------------------------------------------------------------------
\* The Recording page left alone after RECORD: the tracker keeps delivering
\* frames and the timers fire, but STOP and Retake are not pressed. The two
\* intervals and the 100 ms callback are browser timers, which fire as long
\* as they are set.

NextUnattended ==
    \/ \E d \in TrackerFrames : handleMediaPipeUpdate(d)
    \/ startRecording
    \/ CountdownTick
    \/ RecordingTick
    \/ handleRepetitionComplete

SpecUnattended ==
    /\ Init /\ [][NextUnattended]_vars
    /\ WF_vars(CountdownTick) /\ WF_vars(RecordingTick)
    /\ WF_vars(handleRepetitionComplete)

\* C25: once RECORD is pressed and nothing else is pressed, the page leaves
\* the countdown and the recording state and the repetition is submitted.
C25_RecordingTerminates ==
    /\ \A n \in 0..MaxRecordings :
          (isCountingDown /\ Len(submitted) = n) ~> (Len(submitted) > n)
    /\ (isCountingDown \/ isRecording) ~> (~isCountingDown /\ ~isRecording)

\* a recording that ran until its timer expired has been submitted
C25_Witness ==
    /\ Len(submitted) = 1
    /\ recordingTimer = RECORDING_SECONDS
    /\ ~isRecording /\ ~isCountingDown /\ pending = <<>>

----------------------------------------------------------------------------
\* Finalizations and captured frames of the Recording page (checked under
\* Spec)

\* C26: a completion callback is scheduled only by the step that ends a
\* recording, one per step; a recording begins only at the end of a
\* countdown; and every callback finalizes and submits exactly once. So no
\* started recording is finalized or submitted twice, whatever the order of
\* STOP, timer expiry and the callbacks.
C26_OneFinalizationPerRecording ==
    [][ /\ Len(pending') > Len(pending) =>
              /\ isRecording /\ ~isRecording'
              /\ Len(pending') = Len(pending) + 1
        /\ (~isRecording /\ isRecording') => (isCountingDown /\ ~isCountingDown')
        /\ submitted' # submitted =>
              /\ Len(submitted') = Len(submitted) + 1
              /\ Len(pending') = Len(pending) - 1
              /\ Len(recordedData') = Len(Head(pending).recordedData) + 1 ]_vars

\* two recordings, the first ended by STOP, have been finalized once each
C26_Witness ==
    /\ Len(submitted) = 2
    /\ pending = <<>>
    /\ Len(submitted[1].repetitionData) = 1
    /\ recordingTimer = RECORDING_SECONDS

\* a frame is appended to the buffer by this step
FrameAppended ==
    /\ Len(recordingMotionDataRef') = Len(recordingMotionDataRef) + 1
    /\ SubSeq(recordingMotionDataRef', 1, Len(recordingMotionDataRef))
          = recordingMotionDataRef

\* C27 (as claimed): a frame is appended only after the start instant of a
\* recording, inside the capture window and before the finalization, and
\* never while the countdown runs.
C27_FramesOnlyWhileRecording ==
    [][ FrameAppended =>
          /\ recordingElapsed # Null
          /\ recordingElapsed > 0 /\ recordingElapsed <= CAPTURE_WINDOW
          /\ ~isCountingDown ]_vars

----------------------------------------------------------------------------
\* Requests of one user handled concurrently (checked under SpecSessions).
\* Every await of a handler is a point where another handler may run. calcIn
\* holds the requests, calcOut the position of each handler, the number of
\* rows it has read and the user's rows in storage.

MaxHandlers == 3    \* requests under way at once

InitSessions ==
    /\ ClientInit /\ ServerIdle
    /\ calcPc = "serving"
    /\ calcIn \in [1..MaxHandlers -> [route : {"start", "complete"}, assessmentId : {1, 2}]]
    /\ calcOut = [pc    |-> [p \in 1..MaxHandlers |-> "begin"],
                  count |-> [p \in 1..MaxHandlers |-> 0],
                  rows  |-> <<>>]

\* POST .../start: a row that is not completed and has no session number
StartAssessment(p) ==
    /\ calcIn[p].route = "start" /\ calcOut.pc[p] = "begin"
    /\ calcOut' = [calcOut EXCEPT
                     !.pc[p] = "done",
                     !.rows = Append(@, [assessmentId |-> calcIn[p].assessmentId,
                                         isCompleted |-> FALSE, sessionNumber |-> Null])]
    /\ UNCHANGED <<calcPc, calcIn, clientVars, serverVars>>

\* POST .../complete, up to the await of storage.getUserAssessments:
\* sessionCount is the number of the user's rows of the same assessment
ReadExisting(p) ==
    /\ calcIn[p].route = "complete" /\ calcOut.pc[p] = "begin"
    /\ calcOut' = [calcOut EXCEPT
                     !.pc[p] = "create",
                     !.count[p] = Cardinality({ i \in 1..Len(calcOut.rows) :
                                      calcOut.rows[i].assessmentId = calcIn[p].assessmentId })]
    /\ UNCHANGED <<calcPc, calcIn, clientVars, serverVars>>

\* POST .../complete, storage.createUserAssessment with sessionCount + 1
CreateCompleted(p) ==
    /\ calcOut.pc[p] = "create"
    /\ calcOut' = [calcOut EXCEPT
                     !.pc[p] = "done",
                     !.rows = Append(@, [assessmentId |-> calcIn[p].assessmentId,
                                         isCompleted |-> TRUE,
                                         sessionNumber |-> calcOut.count[p] + 1])]
    /\ UNCHANGED <<calcPc, calcIn, clientVars, serverVars>>

NextSessions ==
    \/ \E p \in 1..MaxHandlers : StartAssessment(p)
    \/ \E p \in 1..MaxHandlers : ReadExisting(p)
    \/ \E p \in 1..MaxHandlers : CreateCompleted(p)

SpecSessions == InitSessions /\ [][NextSessions]_vars

\* C28 (as claimed): two completed rows of the same assessment never carry
\* the same session number.
C28_SessionNumbersDistinct ==
    \A i, j \in 1..Len(calcOut.rows) :
        (/\ calcOut.rows[i].isCompleted /\ calcOut.rows[j].isCompleted
         /\ calcOut.rows[i].assessmentId = calcOut.rows[j].assessmentId
         /\ calcOut.rows[i].sessionNumber = calcOut.rows[j].sessionNumber) => i = j

----------------------------------------------------------------------------
\* A failing calculation (checked under SpecComplete)

\* the per-finger fields, which only the calculation branches assign
PerFingerFields ==
    {"kapandjiScore", "indexFingerRom", "middleFingerRom", "ringFingerRom",
     "pinkyFingerRom", "middleFingerMcp", "middleFingerPip", "middleFingerDip",
     "ringFingerMcp", "ringFingerPip", "ringFingerDip",
     "pinkyFingerMcp", "pinkyFingerPip", "pinkyFingerDip"}

\* C29: when the all-fingers ROM or Kapandji calculation throws, the handler
\* still goes on to create the record and answers without an error: once it
\* has answered there is exactly one new completed record, whose index-finger
\* maxima are the largest values of the repetition data and whose per-finger
\* fields are all null.
C29_ThrowStillCompletes ==
    srvAcc.error # Undefined =>
        /\ srvPc \in {"store", "done"}
        /\ srvPc = "store" => (srvStored = <<>> /\ ENABLED CreateUserAssessment)
        /\ srvPc = "done" =>
             /\ Len(srvStored) = 1
             /\ LET row == srvStored[1]
                IN /\ row.isCompleted
                   /\ row.sessionNumber = 1
                   /\ row.repetitionData = srvReq.repetitionData
                   /\ row.maxMcpAngle = ToString(LargestOf(SuppliedJoint("mcpAngle")))
                   /\ row.maxPipAngle = ToString(LargestOf(SuppliedJoint("pipAngle")))
                   /\ row.maxDipAngle = ToString(LargestOf(SuppliedJoint("dipAngle")))
                   /\ row.totalActiveRom =
                        ToString(LargestOf(SuppliedJoint("totalActiveRom")))
                   /\ \A field \in PerFingerFields : row[field] = "null"

\* C29 witness: the Kapandji calculation threw after frames reaching a rung
\* had been folded, and the record was stored with a non-zero index maximum
\* and no Kapandji score
C29_Witness ==
    /\ srvPc = "done"
    /\ srvAcc.error # Undefined
    /\ srvName = "Kapandji Score"
    /\ srvAcc.kapandjiMax > 0
    /\ Len(srvStored) = 1
    /\ srvStored[1].maxMcpAngle = "2"
    /\ srvStored[1].kapandjiScore = "null"

============================================================================
